---- MODULE Spec2Model ----
(***************************************************************************)
(* Model of the EAN-8 and EAN supplemental (EAN-2 / EAN-5) encoders of     *)
(* barcoders: the shared Parse::parse validation, the constructors, and    *)
(* the read-only views raw_data / checksum_digit / encode.                 *)
(*                                                                         *)
(* A String is a sequence of Unicode code points; String::len() is the     *)
(* UTF-8 byte length.  A Vec<u8> is a sequence of naturals below 256.      *)
(* A panic (failed expect, slice or index out of range, u8 overflow in a   *)
(* checked build) is the value Panic / PanicU8 and is propagated.          *)
(***************************************************************************)
EXTENDS Integers, Sequences, FiniteSets, TLC

\* ------------------------------------------------------------------ bounds
NumInputDigits == 2
MaxInputLen == 8
MaxMixedLen == 7
MaxCalls == 2

\* --------------------------------------------------------- std primitives
Panic == <<-1>>
PanicU8 == -1
NoneDigit == -1

\* char::len_utf8
len_utf8(c) == IF c < 128 THEN 1 ELSE IF c < 2048 THEN 2 ELSE IF c < 65536 THEN 3 ELSE 4

\* String::len(): number of bytes of the UTF-8 encoding
RECURSIVE str_len(_)
str_len(s) == IF s = <<>> THEN 0 ELSE len_utf8(Head(s)) + str_len(Tail(s))

\* char::to_digit(10)
to_digit(c) == IF c >= 48 /\ c <= 57 THEN c - 48 ELSE NoneDigit

\* char::from_digit(i, 10).unwrap()
from_digit(i) == 48 + i

\* checked / wrapping u8 arithmetic: debug builds panic on overflow, release builds wrap
Builds == {"debug", "release"}
u8(build, n) == IF n = PanicU8 THEN PanicU8 ELSE IF n >= 0 /\ n <= 255 THEN n ELSE IF build = "debug" THEN PanicU8 ELSE n % 256
u8_add(build, a, b) == IF a = PanicU8 \/ b = PanicU8 THEN PanicU8 ELSE u8(build, a + b)
u8_mul(build, a, b) == IF a = PanicU8 \/ b = PanicU8 THEN PanicU8 ELSE u8(build, a * b)
u8_sub(build, a, b) == IF a = PanicU8 \/ b = PanicU8 THEN PanicU8 ELSE u8(build, a - b)

\* &v[from..to] (0-based, end exclusive); panics when out of bounds
slice(v, from, to) == IF from <= to /\ to <= Len(v) THEN SubSeq(v, from + 1, to) ELSE Panic

\* ------------------------------------------------- shared tables (ean13.rs)
EAN_ENCODINGS == <<
  << <<0,0,0,1,1,0,1>>, <<0,0,1,1,0,0,1>>, <<0,0,1,0,0,1,1>>, <<0,1,1,1,1,0,1>>, <<0,1,0,0,0,1,1>>,
     <<0,1,1,0,0,0,1>>, <<0,1,0,1,1,1,1>>, <<0,1,1,1,0,1,1>>, <<0,1,1,0,1,1,1>>, <<0,0,0,1,0,1,1>> >>,
  << <<0,1,0,0,1,1,1>>, <<0,1,1,0,0,1,1>>, <<0,0,1,1,0,1,1>>, <<0,1,0,0,0,0,1>>, <<0,0,1,1,1,0,1>>,
     <<0,1,1,1,0,0,1>>, <<0,0,0,0,1,0,1>>, <<0,0,1,0,0,0,1>>, <<0,0,0,1,0,0,1>>, <<0,0,1,0,1,1,1>> >>,
  << <<1,1,1,0,0,1,0>>, <<1,1,0,0,1,1,0>>, <<1,1,0,1,1,0,0>>, <<1,0,0,0,0,1,0>>, <<1,0,1,1,1,0,0>>,
     <<1,0,0,1,1,1,0>>, <<1,0,1,0,0,0,0>>, <<1,0,0,0,1,0,0>>, <<1,0,0,1,0,0,0>>, <<1,1,1,0,1,0,0>> >> >>
EAN_LEFT_GUARD == <<1,0,1>>
EAN_MIDDLE_GUARD == <<0,1,0,1,0>>
EAN_RIGHT_GUARD == <<1,0,1>>

\* helpers::join_vecs: concatenation in the given order
RECURSIVE join_vecs(_)
join_vecs(vecs) == IF vecs = <<>> THEN <<>>
                   ELSE IF Head(vecs) = Panic THEN Panic
                   ELSE LET rest == join_vecs(Tail(vecs)) IN
                        IF rest = Panic THEN Panic ELSE Head(vecs) \o rest

\* ------------------------------------------------------------ sym/mod.rs
NoMsg == [fmt |-> "", args |-> <<>>]
NoSelf == [variant |-> "", data |-> <<>>]
RangeMsg(lo, hi) == [fmt |-> "Data does not fit within range of {}-{}", args |-> <<lo, hi>>]
CharMsg(c) == [fmt |-> "Invalid character: {}", args |-> <<c>>]

\* impl Parse: valid_len() as a Range<u32>, valid_chars() as a Vec<char>
valid_len(sym) == IF sym = "EAN8" THEN [start |-> 7, end |-> 8] ELSE [start |-> 2, end |-> 5]
valid_chars(sym) == [i \in 1..10 |-> from_digit(i - 1)]

\* data.chars().find(|c| valid_chars.iter().find(|vc| *vc == c).is_none()): 0 when None,
\* otherwise the 1-based position of the first character not in valid_chars
bad_char(chars, data) ==
  LET bad == {i \in 1..Len(data) : \A j \in 1..Len(chars) : chars[j] # data[i]} IN
  IF bad = {} THEN 0 ELSE CHOOSE i \in bad : \A k \in bad : i <= k

\* parse with the upper bound of valid_len() treated as exclusive
parse_exclusive_end(sym, data) ==
  LET chars == valid_chars(sym)
      len == valid_len(sym)
      data_len == str_len(data)
  IN IF data_len < len.start \/ data_len >= len.end
     THEN [tag |-> "Err", msg |-> RangeMsg(len.start, len.end - 1), data |-> <<>>]
     ELSE LET b == bad_char(chars, data) IN
          IF b # 0 THEN [tag |-> "Err", msg |-> CharMsg(data[b]), data |-> <<>>]
          ELSE [tag |-> "Ok", msg |-> NoMsg, data |-> data]

parse(sym, data) ==
  LET chars == valid_chars(sym)
      len == valid_len(sym)
      data_len == str_len(data)
  IN IF data_len < len.start \/ data_len > len.end
     THEN [tag |-> "Err", msg |-> RangeMsg(len.start, len.end - 1), data |-> <<>>]
     ELSE LET b == bad_char(chars, data) IN
          IF b # 0 THEN [tag |-> "Err", msg |-> CharMsg(data[b]), data |-> <<>>]
          ELSE [tag |-> "Ok", msg |-> NoMsg, data |-> data]

\* d.chars().map(|c| c.to_digit(10).expect("Unknown character") as u8).collect()
digits_of(d) == IF \E i \in 1..Len(d) : to_digit(d[i]) = NoneDigit THEN Panic
                ELSE [i \in 1..Len(d) |-> to_digit(d[i])]

\* ------------------------------------------------------------ sym/ean8.rs
EAN8_new(data) ==
  LET p == parse("EAN8", data) IN
  IF p.tag = "Ok"
  THEN LET digits == digits_of(p.data) IN
       IF digits = Panic THEN [tag |-> "Panic", msg |-> NoMsg, self |-> NoSelf]
       ELSE [tag |-> "Ok", msg |-> NoMsg, self |-> [variant |-> "EAN8", data |-> digits]]
  ELSE [tag |-> "Err", msg |-> p.msg, self |-> NoSelf]

\* raw_data dropping the first digit: &self.data[1..]
EAN8_raw_data_tail(self) == slice(self.data, 1, Len(self.data))

EAN8_raw_data(self) == slice(self.data, 0, Len(self.data))

\* the loop shared by both checksum_digit methods: i is the 0-based enumerate() index
RECURSIVE checksum_loop(_, _, _, _, _)
checksum_loop(build, data, i, odds, evens) ==
  IF i >= Len(data) THEN [odds |-> odds, evens |-> evens]
  ELSE IF i % 2 = 1
       THEN checksum_loop(build, data, i + 1, odds, u8_add(build, evens, data[i + 1]))
       ELSE checksum_loop(build, data, i + 1, u8_add(build, odds, data[i + 1]), evens)

EAN8_checksum_digit(build, self) ==
  LET s == checksum_loop(build, self.data, 0, 0, 0)
      weighted == u8_add(build, u8_mul(build, s.odds, 3), s.evens)
      n == IF weighted = PanicU8 THEN PanicU8 ELSE u8_sub(build, 10, weighted % 10)
  IN IF n = 10 THEN 0 ELSE n

EAN8_number_system_digits(self) == slice(self.data, 0, 2)

\* EAN_ENCODINGS[side][*d as usize]; panics when an index is out of range
EAN8_char_encoding(side, d) ==
  IF side >= 0 /\ side < Len(EAN_ENCODINGS) /\ d >= 0 /\ d < Len(EAN_ENCODINGS[side + 1])
  THEN EAN_ENCODINGS[side + 1][d + 1] ELSE Panic

\* digits.iter().map(|d| char_encoding(side, d)) flattened in order
EAN8_encode_digits(side, ds) ==
  IF ds = Panic THEN Panic ELSE join_vecs([i \in 1..Len(ds) |-> EAN8_char_encoding(side, ds[i])])

EAN8_number_system_encoding(self) == EAN8_encode_digits(0, EAN8_number_system_digits(self))

EAN8_checksum_encoding(build, self) == EAN8_char_encoding(2, EAN8_checksum_digit(build, self))

\* left_digits starting one digit late: &self.data[3..4]
EAN8_left_digits_late(self) == slice(self.data, 3, 4)

EAN8_left_digits(self) == slice(self.data, 2, 4)

\* right_digits with a fixed end: &self.data[4..8]
EAN8_right_digits_fixed_end(self) == slice(self.data, 4, 8)

EAN8_right_digits(self) == slice(self.data, 4, Len(self.data))

EAN8_left_payload(self) == EAN8_encode_digits(0, EAN8_left_digits(self))

EAN8_right_payload(self) == EAN8_encode_digits(2, EAN8_right_digits(self))

EAN8_encode(build, self) ==
  join_vecs(<<EAN_LEFT_GUARD, EAN8_number_system_encoding(self),
              EAN8_left_payload(self), EAN_MIDDLE_GUARD, EAN8_right_payload(self),
              EAN8_checksum_encoding(build, self), EAN_RIGHT_GUARD>>)

\* -------------------------------------------------------- sym/ean_supp.rs
EANSUPP_LEFT_GUARD == <<1,0,1,1>>

EAN5_PARITY == <<
  <<0,0,1,1,1>>,
  <<1,0,1,0,0>>,
  <<1,0,0,1,0>>,
  <<1,0,0,0,1>>,
  <<0,1,1,0,0>>,
  <<0,0,1,1,0>>,
  <<0,0,0,1,1>>,
  <<0,1,0,1,0>>,
  <<0,1,0,0,1>>,
  <<0,0,1,0,1>> >>

EAN2_PARITY == <<
  <<0,0,0,0,0>>,
  <<0,1,0,0,0>>,
  <<1,0,0,0,0>>,
  <<1,1,0,0,0>> >>

SuppMsg(n) == [fmt |-> "Invalid supplemental length: {}", args |-> <<n>>]

EANSUPP_new(data) ==
  LET p == parse("EANSUPP", data) IN
  IF p.tag = "Ok"
  THEN LET digits == digits_of(p.data) IN
       IF digits = Panic THEN [tag |-> "Panic", msg |-> NoMsg, self |-> NoSelf]
       ELSE IF Len(digits) = 2 THEN [tag |-> "Ok", msg |-> NoMsg, self |-> [variant |-> "EAN2", data |-> digits]]
       ELSE IF Len(digits) = 5 THEN [tag |-> "Ok", msg |-> NoMsg, self |-> [variant |-> "EAN5", data |-> digits]]
       ELSE [tag |-> "Err", msg |-> SuppMsg(Len(digits)), self |-> NoSelf]
  ELSE [tag |-> "Err", msg |-> p.msg, self |-> NoSelf]

EANSUPP_raw_data(self) == slice(self.data, 0, Len(self.data))

EANSUPP_char_encoding(side, d) ==
  IF side >= 0 /\ side < Len(EAN_ENCODINGS) /\ d >= 0 /\ d < Len(EAN_ENCODINGS[side + 1])
  THEN EAN_ENCODINGS[side + 1][d + 1] ELSE Panic

\* checksum_digit with the two weights exchanged
EANSUPP_checksum_digit_swapped(build, self) ==
  LET data == EANSUPP_raw_data(self)
      s == checksum_loop(build, data, 0, 0, 0)
      weighted == u8_add(build, u8_mul(build, s.odds, 9), u8_mul(build, s.evens, 3))
      n == IF weighted = PanicU8 THEN PanicU8 ELSE weighted % 10
  IN IF n = 10 THEN 0 ELSE n

EANSUPP_checksum_digit(build, self) ==
  LET data == EANSUPP_raw_data(self)
      s == checksum_loop(build, data, 0, 0, 0)
      weighted == u8_add(build, u8_mul(build, s.odds, 3), u8_mul(build, s.evens, 9))
      n == IF weighted = PanicU8 THEN PanicU8 ELSE weighted % 10
  IN IF n = 10 THEN 0 ELSE n

\* the index into the parity table: `modulo` for EAN2, `check` for EAN5
EANSUPP_parity_index(build, self) ==
  IF self.variant = "EAN2"
  THEN LET d == self.data IN
       IF Len(d) < 2 THEN PanicU8
       ELSE LET sum == u8_add(build, u8_mul(build, d[1], 10), d[2]) IN
            IF sum = PanicU8 THEN PanicU8 ELSE sum % 4
  ELSE EANSUPP_checksum_digit(build, self)

EANSUPP_parity(build, self) ==
  LET table == IF self.variant = "EAN2" THEN EAN2_PARITY ELSE EAN5_PARITY
      idx == EANSUPP_parity_index(build, self)
  IN IF idx >= 0 /\ idx < Len(table) THEN table[idx + 1] ELSE Panic

\* the separator loop pushing 0,1 before every slice, the first included
RECURSIVE payload_loop_leading(_, _, _)
payload_loop_leading(slices, i, p) ==
  IF i >= Len(slices) THEN p
  ELSE IF slices[i + 1] = Panic THEN Panic
  ELSE payload_loop_leading(slices, i + 1, (p \o <<0, 1>>) \o slices[i + 1])

\* the separator loop of payload(): 0,1 pushed before every slice but the first
RECURSIVE payload_loop(_, _, _)
payload_loop(slices, i, p) ==
  IF i >= Len(slices) THEN p
  ELSE IF slices[i + 1] = Panic THEN Panic
  ELSE payload_loop(slices, i + 1, (IF i > 0 THEN p \o <<0, 1>> ELSE p) \o slices[i + 1])

EANSUPP_payload(build, self) ==
  LET data == EANSUPP_raw_data(self)
      par == EANSUPP_parity(build, self)
  IN IF par = Panic THEN Panic
     ELSE LET n == IF Len(data) < Len(par) THEN Len(data) ELSE Len(par)
              slices == [i \in 1..n |-> EANSUPP_char_encoding(par[i], data[i])]
          IN payload_loop(slices, 0, <<>>)

EANSUPP_encode(build, self) == join_vecs(<<EANSUPP_LEFT_GUARD, EANSUPP_payload(build, self)>>)

\* ---------------------------------------------------------------- inputs
\* the digit values the generated inputs are drawn from: 0, 9, 8, 7, ... in this order
InputDigits == {(9 * k) % 10 : k \in 0..(NumInputDigits - 1)}
\* one digit, one ASCII letter ('A'), a 2-byte character (U+00E9), a 3-byte character (U+20AC)
MixedChars == {48, 65, 233, 8364}
Str(ds) == [i \in 1..Len(ds) |-> from_digit(ds[i])]
\* the inputs used by the unit tests of ean8.rs and ean_supp.rs
TestInputs == {Str(<<1,2,3,4,5,6,7>>), Str(<<5,5,1,2,3,4,5>>), Str(<<9,8,3,4,6,5,1>>),
               Str(<<4,5,7,5,6,7,8>>), Str(<<9,5,3,4,7,6,3>>),
               <<49,50,51,52,101,114,49,50,51,52,49,50>>,
               Str(<<1,1,1,1,1,1,2,2,2,2,2,2,2,3,3,3,3,3,3>>),
               Str(<<1,2>>), Str(<<1,2,3,4,5>>), <<65,84>>, Str(<<1,2,3>>),
               Str(<<9,8>>), Str(<<9,8,5,6,7>>), Str(<<3,4>>), Str(<<5,1,2,3,4>>)}
SeqsUpTo(S, n) == UNION {[1..k -> S] : k \in 0..n}
Inputs == SeqsUpTo({from_digit(d) : d \in InputDigits}, MaxInputLen)
          \cup SeqsUpTo(MixedChars, MaxMixedLen) \cup TestInputs

\* ----------------------------------------------------------- state machine
VARIABLES input, pc, sym, result, history
vars == <<input, pc, sym, result, history>>

NoResult == [tag |-> "None", msg |-> NoMsg, self |-> NoSelf]

Init == /\ input \in Inputs
        /\ pc = "start"
        /\ sym = ""
        /\ result = NoResult
        /\ history = <<>>

Construct(s, r) == /\ pc = "start"
                   /\ sym' = s
                   /\ result' = r
                   /\ pc' = IF r.tag = "Panic" THEN "panicked" ELSE "built"
                   /\ UNCHANGED <<input, history>>

Call_EAN8_new == Construct("EAN8", EAN8_new(input))

Call_EANSUPP_new == Construct("EANSUPP", EANSUPP_new(input))

\* a call of a &self method: the instance is only read
Return(op, val, panicked) ==
  /\ IF panicked THEN pc' = "panicked" /\ UNCHANGED history
     ELSE pc' = pc /\ history' = Append(history, [op |-> op, val |-> val])
  /\ UNCHANGED <<input, sym, result>>

IsInstance(variants) == pc = "built" /\ result.tag = "Ok" /\ result.self.variant \in variants
                        /\ Len(history) < MaxCalls

Call_EAN8_raw_data ==
  /\ IsInstance({"EAN8"})
  /\ LET v == EAN8_raw_data(result.self) IN Return("raw_data", v, v = Panic)

Call_EAN8_checksum_digit ==
  /\ IsInstance({"EAN8"})
  /\ \E build \in Builds :
       LET v == EAN8_checksum_digit(build, result.self) IN Return("checksum_digit", v, v = PanicU8)

Call_EAN8_encode ==
  /\ IsInstance({"EAN8"})
  /\ \E build \in Builds :
       LET v == EAN8_encode(build, result.self) IN Return("encode", v, v = Panic)

Call_EANSUPP_raw_data ==
  /\ IsInstance({"EAN2", "EAN5"})
  /\ LET v == EANSUPP_raw_data(result.self) IN Return("raw_data", v, v = Panic)

Call_EANSUPP_checksum_digit ==
  /\ IsInstance({"EAN2", "EAN5"})
  /\ \E build \in Builds :
       LET v == EANSUPP_checksum_digit(build, result.self) IN Return("checksum_digit", v, v = PanicU8)

Call_EANSUPP_encode ==
  /\ IsInstance({"EAN2", "EAN5"})
  /\ \E build \in Builds :
       LET v == EANSUPP_encode(build, result.self) IN Return("encode", v, v = Panic)

Next == \/ Call_EAN8_new
        \/ Call_EANSUPP_new
        \/ Call_EAN8_raw_data
        \/ Call_EAN8_checksum_digit
        \/ Call_EAN8_encode
        \/ Call_EANSUPP_raw_data
        \/ Call_EANSUPP_checksum_digit
        \/ Call_EANSUPP_encode

Spec == Init /\ [][Next]_vars

TypeOK == /\ pc \in {"start", "built", "panicked"}
          /\ result.tag \in {"None", "Ok", "Err", "Panic"}
          /\ Len(history) <= MaxCalls

\* ------------------------------------------------- property vocabulary
IsDigitChar(c) == c >= 48 /\ c <= 57
AllDigits(str) == \A i \in 1..Len(str) : IsDigitChar(str[i])
DigitValues(str) == [i \in 1..Len(str) |-> str[i] - 48]
LeftmostBad(str) == str[CHOOSE i \in 1..Len(str) : ~IsDigitChar(str[i]) /\ \A k \in 1..(i - 1) : IsDigitChar(str[k])]
IsLengthErr(r) == r.tag = "Err" /\ r.msg.fmt = "Data does not fit within range of {}-{}"
IsCharErr(r) == r.tag = "Err" /\ r.msg.fmt = "Invalid character: {}"
IsSuppErr(r) == r.tag = "Err" /\ r.msg.fmt = "Invalid supplemental length: {}"
Constructed(s) == pc # "start" /\ sym = s
Returned(op) == {i \in 1..Len(history) : history[i].op = op}

\* C1: EAN8::new returns a length error for every input whose character count
\* is not exactly 7, returns Ok for every string of exactly 7 digits, and so
\* every EAN8 instance holds exactly 7 digits.
C1_LengthContract ==
  Constructed("EAN8") =>
    /\ (Len(input) # 7 => IsLengthErr(result))
    /\ (Len(input) = 7 /\ AllDigits(input) => result.tag = "Ok")
    /\ (result.tag = "Ok" => Len(result.self.data) = 7)

\* C2: for every valid 7-digit input, EAN8::encode returns start guard, the
\* left-odd patterns of digits 1-2 and 3-4, middle guard, the right patterns of
\* digits 5-7 and of checksum_digit(), end guard: 67 bits, each 0 or 1, and
\* "5512345" gives the vector of the unit test.
C2_Expected(d, chk) ==
  <<1,0,1>> \o EAN_ENCODINGS[1][d[1] + 1] \o EAN_ENCODINGS[1][d[2] + 1]
            \o EAN_ENCODINGS[1][d[3] + 1] \o EAN_ENCODINGS[1][d[4] + 1]
            \o <<0,1,0,1,0>>
            \o EAN_ENCODINGS[3][d[5] + 1] \o EAN_ENCODINGS[3][d[6] + 1] \o EAN_ENCODINGS[3][d[7] + 1]
            \o EAN_ENCODINGS[3][chk + 1]
            \o <<1,0,1>>
C2_Vector ==
  <<1,0,1,0,1,1,0,0,0,1,0,1,1,0,0,0,1,0,0,1,1,0,0,1,0,0,1,0,0,1,1,0,1,0,1,0,1,0,0,0,0,1,0,1,0,1,1,1,0,0,1,0,0,1,1,1,0,1,0,0,0,1,0,0,1,0,1>>
C2_EncodeLayout ==
  (Constructed("EAN8") /\ Len(input) = 7 /\ AllDigits(input)) =>
    /\ result.tag = "Ok"
    /\ \A i \in Returned("encode") :
         /\ \A build \in Builds :
              history[i].val = C2_Expected(DigitValues(input), EAN8_checksum_digit(build, result.self))
         /\ Len(history[i].val) = 67
         /\ \A k \in 1..Len(history[i].val) : history[i].val[k] \in {0, 1}
         /\ (input = Str(<<5,5,1,2,3,4,5>>) => history[i].val = C2_Vector)
C2_Witness ==
  /\ Constructed("EAN8") /\ input = Str(<<5,5,1,2,3,4,5>>) /\ Returned("encode") # {}

\* C3: for every EAN8 instance checksum_digit() equals 10 - ((3*odds + evens) mod 10)
\* with 10 mapped to 0, where odds sums the digits of raw_data() at indices 0,2,4,6
\* and evens those at indices 1,3,5; the result is a digit 0..9.
C3_Reference(d) ==
  LET odds == d[1] + d[3] + d[5] + d[7]
      evens == d[2] + d[4] + d[6]
      n == 10 - ((3 * odds + evens) % 10)
  IN IF n = 10 THEN 0 ELSE n
C3_ChecksumReference ==
  (Constructed("EAN8") /\ result.tag = "Ok") =>
    \A i \in Returned("checksum_digit") :
      /\ history[i].val = C3_Reference(EAN8_raw_data(result.self))
      /\ history[i].val \in 0..9

\* C4: EANSUPP::new selects the variant by digit count alone: 2 digits give
\* EAN2 and 5 digits give EAN5, each holding the input digits; every other
\* all-digit input fails; 3 and 4 digits pass the range check of parse and fail
\* with the unsupported-length error.
C4_VariantSelection ==
  (Constructed("EANSUPP") /\ AllDigits(input)) =>
    /\ (Len(input) = 2 => result.tag = "Ok" /\ result.self = [variant |-> "EAN2", data |-> DigitValues(input)])
    /\ (Len(input) = 5 => result.tag = "Ok" /\ result.self = [variant |-> "EAN5", data |-> DigitValues(input)])
    /\ (Len(input) \notin {2, 5} => result.tag = "Err")
    /\ (Len(input) \in {3, 4} => /\ parse("EANSUPP", input).tag = "Ok"
                                 /\ IsSuppErr(result)
                                 /\ result.msg.args = <<Len(input)>>)
C4_Witness ==
  /\ Constructed("EANSUPP") /\ AllDigits(input) /\ Len(input) = 4 /\ IsSuppErr(result)

\* C5: when the character count of the input is within the accepted length and
\* some character is outside '0'..'9', new fails with the invalid-character
\* error naming the leftmost offending character; when no character is outside
\* the set, parse returns the input unchanged.
C5_AcceptedCount(s, n) == IF s = "EAN8" THEN n = 7 ELSE n >= 2 /\ n <= 5
C5_InvalidCharacter ==
  (pc # "start" /\ C5_AcceptedCount(sym, Len(input))) =>
    /\ (~AllDigits(input) => IsCharErr(result) /\ result.msg.args = <<LeftmostBad(input)>>)
    /\ (AllDigits(input) => parse(sym, input) = [tag |-> "Ok", msg |-> NoMsg, data |-> input])

\* C6: for every EANSUPP instance encode() returns the guard 1,0,1,1 followed,
\* for each stored digit in order, by its 7-bit pattern from the table parity()
\* chooses for its position, with the separator 0,1 before every digit pattern
\* but the first and nowhere else: 20 bits for EAN2, 47 bits for EAN5, and
\* "34" gives the vector of the unit test.
C6_Vector34 ==
  <<1,0,1,1,0,1,0,0,0,0,1,0,1,0,1,0,0,0,1,1>>
C6_Layout(bits, d, par) ==
  LET n == Len(d) IN
  /\ Len(bits) = 4 + 7 * n + 2 * (n - 1)
  /\ SubSeq(bits, 1, 4) = <<1,0,1,1>>
  /\ \A i \in 1..n : SubSeq(bits, 9 * i - 4, 9 * i + 2) = EAN_ENCODINGS[par[i] + 1][d[i] + 1]
  /\ \A i \in 1..(n - 1) : SubSeq(bits, 9 * i + 3, 9 * i + 4) = <<0,1>>
C6_SupplementalLayout ==
  (Constructed("EANSUPP") /\ result.tag = "Ok") =>
    \A i \in Returned("encode") :
      /\ \A build \in Builds :
           C6_Layout(history[i].val, EANSUPP_raw_data(result.self), EANSUPP_parity(build, result.self))
      /\ (result.self.variant = "EAN2" => Len(history[i].val) = 20)
      /\ (result.self.variant = "EAN5" => Len(history[i].val) = 47)
      /\ (input = Str(<<3,4>>) => history[i].val = C6_Vector34)
C6_Witness ==
  /\ Constructed("EANSUPP") /\ result.tag = "Ok" /\ result.self.variant = "EAN5"
  /\ Returned("encode") # {} /\ Len(history[1].val) = 47

\* C7: the parity pattern is entry (10*d0 + d1) mod 4 of EAN2_PARITY for EAN2
\* and entry checksum_digit() of EAN5_PARITY for EAN5, where checksum_digit()
\* is (3*odds + 9*evens) mod 10 over indices 0,2,4 and 1,3; the index is within
\* the table and every selected slot is 0 or 1.
C7_Checksum5(d) == (3 * (d[1] + d[3] + d[5]) + 9 * (d[2] + d[4])) % 10
C7_ParitySelection ==
  (Constructed("EANSUPP") /\ result.tag = "Ok") =>
    LET self == result.self
        d == self.data
    IN \A build \in Builds :
         /\ self.variant = "EAN2" =>
              /\ EANSUPP_parity_index(build, self) = (10 * d[1] + d[2]) % 4
              /\ EANSUPP_parity_index(build, self) \in 0..3
              /\ EANSUPP_parity(build, self) = EAN2_PARITY[((10 * d[1] + d[2]) % 4) + 1]
         /\ self.variant = "EAN5" =>
              /\ EANSUPP_checksum_digit(build, self) = C7_Checksum5(d)
              /\ \A i \in Returned("checksum_digit") : history[i].val = C7_Checksum5(d)
              /\ EANSUPP_parity_index(build, self) = C7_Checksum5(d)
              /\ EANSUPP_parity_index(build, self) \in 0..9
              /\ EANSUPP_parity(build, self) = EAN5_PARITY[C7_Checksum5(d) + 1]
         /\ \A k \in 1..Len(EANSUPP_parity(build, self)) : EANSUPP_parity(build, self)[k] \in {0, 1}
C7_Witness ==
  /\ Constructed("EANSUPP") /\ result.tag = "Ok" /\ result.self.variant = "EAN5"
  /\ Returned("checksum_digit") # {} /\ Returned("encode") # {}
  /\ C7_Checksum5(result.self.data) = 9

\* C8: instances are immutable and their views pure: raw_data() returns the
\* digit values of the input string in input order, no call changes the stored
\* digits or the variant, and any two calls of encode() or of checksum_digit()
\* on one instance return the same result.
C8_Views ==
  result.tag = "Ok" =>
    /\ \A i \in Returned("raw_data") : history[i].val = DigitValues(input)
    /\ result.self.data = DigitValues(input)
    /\ \A i, j \in Returned("encode") : history[i].val = history[j].val
    /\ \A i, j \in Returned("checksum_digit") : history[i].val = history[j].val
C8_ImmutableViews == [][(pc = "built" => result' = result /\ input' = input) /\ C8_Views']_vars
C8_Witness ==
  /\ result.tag = "Ok" /\ Len(history) = 2
  /\ history[1].op = "encode" /\ history[2].op = "raw_data"

\* C9: construction reports exactly one cause, the first that fails of
\* (1) length range, (2) character set, (3) variant selection (EANSUPP only):
\* out of range and non-digit gives the length error; an EANSUPP input of 3 or
\* 4 characters with a non-digit gives the invalid-character error; the three
\* causes have different messages.
C9_OutOfRange(s, n) == IF s = "EAN8" THEN n # 7 ELSE n < 2 \/ n > 5
C9_ErrorOrder ==
  pc # "start" =>
    /\ (result.tag = "Err" =>
          Cardinality({k \in 1..3 : <<IsLengthErr(result), IsCharErr(result), IsSuppErr(result)>>[k]}) = 1)
    /\ (C9_OutOfRange(sym, Len(input)) /\ ~AllDigits(input) => IsLengthErr(result))
    /\ (sym = "EANSUPP" /\ Len(input) \in {3, 4} /\ ~AllDigits(input) => IsCharErr(result))
    /\ Cardinality({RangeMsg(0, 0).fmt, CharMsg(0).fmt, SuppMsg(0).fmt}) = 3

\* C10: on every input for which new returns Ok no operation panics: every
\* stored value is a digit 0..9, the u8 arithmetic of checksum_digit() and
\* parity() stays within 255, no table is indexed out of range and no slice
\* of the digits is out of bounds.
RECURSIVE C10_Sum(_, _)
C10_Sum(d, parity) ==
  IF d = <<>> THEN 0
  ELSE (IF Len(d) % 2 = parity THEN d[Len(d)] ELSE 0) + C10_Sum(SubSeq(d, 1, Len(d) - 1), parity)
C10_NoPanic ==
  /\ pc # "panicked"
  /\ result.tag # "Panic"
  /\ result.tag = "Ok" =>
       LET self == result.self
           d == self.data
           odds == C10_Sum(d, 1)
           evens == C10_Sum(d, 0)
       IN /\ \A i \in 1..Len(d) : d[i] \in 0..9
          /\ \A i \in Returned("checksum_digit") : history[i].val \in 0..9
          /\ sym = "EAN8" =>
               /\ 3 * odds + evens <= 255
               /\ Len(d) >= 4
               /\ history = <<>> =>
                    /\ \A build \in Builds : EAN8_encode(build, self) # Panic
                    /\ EAN8_checksum_digit("debug", self) = EAN8_checksum_digit("release", self)
          /\ sym = "EANSUPP" =>
               /\ 3 * odds + 9 * evens <= 255
               /\ 10 * d[1] + d[2] <= 255
               /\ history = <<>> =>
                    /\ \A build \in Builds : /\ EANSUPP_parity(build, self) # Panic
                                             /\ EANSUPP_encode(build, self) # Panic
                    /\ EANSUPP_checksum_digit("debug", self) = EANSUPP_checksum_digit("release", self)
C10_Witness ==
  /\ Constructed("EANSUPP") /\ result.tag = "Ok" /\ result.self.data = <<9, 9, 9, 9, 9>>
  /\ Len(history) = 2 /\ history[1].op = "checksum_digit" /\ history[2].op = "encode"
====
